---- MODULE Spec2Model ----
(***************************************************************************)
(* The GetNews tool handler of the Nefino MCP server                       *)
(* (retrieve_news_items_for_place), in its two versions:                   *)
(*   "mcp_nefino"  src/src/mcp_nefino/server.py  (awaits the fetch)        *)
(*   "legacy"      src/src/server.py             (calls the fetch inline)  *)
(* One invocation is a small state machine over its own parameters; the    *)
(* event loop runs one invocation at a time and switches only where an     *)
(* invocation is suspended at `await client.get_news(...)`.                *)
(*                                                                         *)
(* Values: an optional value is None (<<>>) or Some(v) (<<v>>); a string   *)
(* that the program builds is the sequence of the pieces it concatenates;  *)
(* a date string is the sequence of its characters.                        *)
(***************************************************************************)
EXTENDS Integers, Sequences, FiniteSets, TLC

VARIABLES
    variant,           \* which of the two server modules is running
    lifespan_context,  \* what app_lifespan yielded: None, or Some(context with the client)
    running,           \* the invocation the event loop is executing, 0 when it is free
    pc,                \* per invocation: its position in the handler
    args,              \* per invocation: the parameters the caller supplied
    frame,             \* per invocation: the handler's local variables
    trace,             \* per invocation: the calls it has made, in order
    sent,              \* per invocation: the requests the client received from it
    fetched,           \* per invocation: the outcome of its fetch, once it has one
    exc,               \* per invocation: the exception the except clause caught
    result             \* per invocation: how it ended (returned a string / raised)

vars == <<variant, lifespan_context, running, pc, args, frame, trace, sent,
          fetched, exc, result>>

-----------------------------------------------------------------------------
(* Bounds *)

NumInv == 2

MaxTopics == 2

Invs == 1..NumInv

-----------------------------------------------------------------------------
(* Optional values *)

None == <<>>

Some(v) == <<v>>

IsNone(o) == o = <<>>

Get(o) == o[1]

Optional(S) == {None} \cup {Some(v) : v \in S}

-----------------------------------------------------------------------------
(* enums.py *)

PlaceTypeNews == {"PLANNING_REGIONS", "COUNTY", "ADMINISTRATIVE_UNIT",
                  "LOCAL_ADMINISTRATIVE_UNITS"}

PlaceTypeNewsValue(m) ==
    CASE m = "PLANNING_REGIONS" -> "PR"
      [] m = "COUNTY" -> "CTY"
      [] m = "ADMINISTRATIVE_UNIT" -> "AU"
      [] m = "LOCAL_ADMINISTRATIVE_UNITS" -> "LAU"

RangeOrRecency == {"RANGE", "RECENCY"}

RangeOrRecencyValue(m) ==
    CASE m = "RANGE" -> "RANGE"
      [] m = "RECENCY" -> "RECENCY"

NewsTopic == {"BATTERY_STORAGE", "GRID_EXPANSION", "SOLAR", "HYDROGEN", "WIND"}

\* the member's name is sent in place of its value
NewsTopicName(m) == m

NewsTopicValue(m) ==
    CASE m = "BATTERY_STORAGE" -> "batteryStorage"
      [] m = "GRID_EXPANSION" -> "gridExpansion"
      [] m = "SOLAR" -> "solar"
      [] m = "HYDROGEN" -> "hydrogen"
      [] m = "WIND" -> "wind"

-----------------------------------------------------------------------------
(* validation.py: the three validators, pure functions *)

DigitValue(c) ==
    CASE c = "0" -> 0 [] c = "1" -> 1 [] c = "2" -> 2 [] c = "3" -> 3
      [] c = "4" -> 4 [] c = "5" -> 5 [] c = "6" -> 6 [] c = "7" -> 7
      [] c = "8" -> 8 [] c = "9" -> 9

IsDigit(c) == c \in {"0", "1", "2", "3", "4", "5", "6", "7", "8", "9"}

IsLeapYear(y) == (y % 4 = 0 /\ y % 100 # 0) \/ y % 400 = 0

DaysInMonth(y, m) ==
    IF m = 2 THEN (IF IsLeapYear(y) THEN 29 ELSE 28)
    ELSE IF m \in {4, 6, 9, 11} THEN 30 ELSE 31

\* the shape YYYY-MM-DD: ten characters, digits around two hyphens
HasDateShape(s) ==
    /\ Len(s) = 10
    /\ s[5] = "-" /\ s[8] = "-"
    /\ \A k \in {1, 2, 3, 4, 6, 7, 9, 10} : IsDigit(s[k])

\* the calendar date a well-shaped string denotes, as <<year, month, day>>
ParseDate(s) ==
    << 1000 * DigitValue(s[1]) + 100 * DigitValue(s[2])
         + 10 * DigitValue(s[3]) + DigitValue(s[4]),
       10 * DigitValue(s[6]) + DigitValue(s[7]),
       10 * DigitValue(s[9]) + DigitValue(s[10]) >>

validate_date_format(value) ==
    /\ ~IsNone(value)
    /\ HasDateShape(Get(value))
    /\ LET d == ParseDate(Get(value))
       IN  /\ d[2] \in 1..12
           /\ d[3] \in 1..DaysInMonth(d[1], d[2])

DateLeq(a, b) ==
    \/ a[1] < b[1]
    \/ a[1] = b[1] /\ a[2] < b[2]
    \/ a[1] = b[1] /\ a[2] = b[2] /\ a[3] <= b[3]

\* <<valid, error>>
validate_date_range(begin, end) ==
    IF DateLeq(ParseDate(Get(begin)), ParseDate(Get(end)))
    THEN <<TRUE, None>>
    ELSE <<FALSE, Some("date_range_begin must be before date_range_end")>>

\* <<valid, error>>
validate_last_n_days(last_n_days) ==
    IF IsNone(last_n_days)
    THEN <<FALSE, Some("last_n_days is required")>>
    ELSE IF Get(last_n_days) < 1
    THEN <<FALSE, Some("last_n_days must be a positive integer")>>
    ELSE <<TRUE, None>>

-----------------------------------------------------------------------------
(* The caller's side: the parameters an invocation can be given *)

PlaceIds == {"123"}

LastNDaysInputs == {None, Some(0), Some(7)}

BadDate == <<"b", "a", "d", "-", "d", "a", "t", "e">>

Feb30 == <<"2", "0", "2", "4", "-", "0", "2", "-", "3", "0">>

Jan2023 == <<"2", "0", "2", "3", "-", "0", "1", "-", "0", "1">>

Jan2024 == <<"2", "0", "2", "4", "-", "0", "1", "-", "0", "1">>

DateInputs == {None, Some(BadDate), Some(Feb30), Some(Jan2023), Some(Jan2024)}

SeqsUpTo(S, n) == UNION {[1..k -> S] : k \in 0..n}

TopicInputs == Optional(SeqsUpTo(NewsTopic, MaxTopics))

Params ==
    [place_id : PlaceIds,
     place_type : PlaceTypeNews,
     range_or_recency : Optional(RangeOrRecency),
     last_n_days : LastNDaysInputs,
     date_range_begin : DateInputs,
     date_range_end : DateInputs,
     news_topics : TopicInputs]

\* the parameters of the invocations that run side by side
ConcParams ==
    [place_id : PlaceIds,
     place_type : {"COUNTY"},
     range_or_recency : Optional(RangeOrRecency),
     last_n_days : {None, Some(7)},
     date_range_begin : {None, Some(Jan2023)},
     date_range_end : {Some(Jan2024)},
     news_topics : {Some(<<"WIND">>)}]

\* what the fetch collaborator can answer
Payloads == {"[]", "[{\"title\": \"news\"}]"}

FetchErrors == {"connection refused"}

Variants == {"mcp_nefino", "legacy"}

-----------------------------------------------------------------------------
(* The strings the handler returns *)

RecencyErrorString(error) ==
    <<"Validation error in RangeOrRecency.RECENCY: ", Get(error)>>

FormatErrorString == <<"Validation error: Invalid date format. Use YYYY-MM-DD">>

RangeErrorString(error) ==
    <<"Validation error in RangeOrRecency.RANGE: ", Get(error)>>

\* the description alone, without the prefix
FailureStringBare(e) == <<e>>

FailureString(e) == <<"Failed to retrieve news: ", e>>

Returned(s) == [kind |-> "returned", value |-> s]

Raised(e) == [kind |-> "raised", error |-> e]

NoResult == [kind |-> "none"]

-----------------------------------------------------------------------------
(* The handler's local variables *)

NoArgs ==
    [place_id |-> "", place_type |-> "", range_or_recency |-> None,
     last_n_days |-> None, date_range_begin |-> None, date_range_end |-> None,
     news_topics |-> None]

NoFrame ==
    [place_id |-> "", place_type |-> "", range_or_recency |-> None,
     last_n_days |-> None, date_range_begin |-> None, date_range_end |-> None,
     news_topics |-> None, client |-> None, str_place_type |-> None,
     str_range_or_recency |-> None, str_news_topics |-> None]

NewFrame(p) ==
    [place_id |-> p.place_id, place_type |-> p.place_type,
     range_or_recency |-> p.range_or_recency, last_n_days |-> p.last_n_days,
     date_range_begin |-> p.date_range_begin,
     date_range_end |-> p.date_range_end, news_topics |-> p.news_topics,
     client |-> None, str_place_type |-> None,
     str_range_or_recency |-> None, str_news_topics |-> None]

\* the mode is compared with a string no member equals
IsRecencyLowercase(f) == f.range_or_recency = Some("recency")

\* range_or_recency == RangeOrRecency.RECENCY
IsRecency(f) == f.range_or_recency = Some("RECENCY")

\* the mode is compared with a string no member equals
IsRangeLowercase(f) == f.range_or_recency = Some("range")

\* range_or_recency == RangeOrRecency.RANGE
IsRange(f) == f.range_or_recency = Some("RANGE")

\* only the first of the two dates is cleared
ClearDateRangeBeginOnly(fr, i) == [fr EXCEPT ![i].date_range_begin = None]

\* the dates live in one place shared by all invocations
ClearDateRangeShared(fr, i) ==
    [j \in DOMAIN fr |->
        [fr[j] EXCEPT !.date_range_begin = None, !.date_range_end = None]]

\* date_range_begin = None; date_range_end = None
ClearDateRange(fr, i) ==
    [fr EXCEPT ![i].date_range_begin = None, ![i].date_range_end = None]

\* last_n_days = None
ClearLastNDays(fr, i) == [fr EXCEPT ![i].last_n_days = None]

\* `is not None` in place of truthiness
TruthyNotNone(o) == ~IsNone(o)

\* Python truthiness of an optional str-enum member / an optional list
Truthy(o) == ~IsNone(o) /\ Len(Get(o)) > 0

TruthyMember(o) == ~IsNone(o) /\ RangeOrRecencyValue(Get(o)) # ""

str_place_type(f) == PlaceTypeNewsValue(f.place_type)

str_range_or_recency(f) ==
    IF TruthyMember(f.range_or_recency)
    THEN Some(RangeOrRecencyValue(Get(f.range_or_recency)))
    ELSE None

str_news_topics(f) ==
    IF Truthy(f.news_topics)
    THEN Some([k \in 1..Len(Get(f.news_topics)) |->
                  NewsTopicValue(Get(f.news_topics)[k])])
    ELSE None

\* the keyword arguments of client.get_news(...)
get_news_request(f) ==
    [place_id |-> f.place_id,
     place_type |-> Get(f.str_place_type),
     range_or_recency |-> f.str_range_or_recency,
     last_n_days |-> f.last_n_days,
     date_range_begin |-> f.date_range_begin,
     date_range_end |-> f.date_range_end,
     news_topics |-> f.str_news_topics]

Event(op, a) == [op |-> op, args |-> a]

\* only an absent date is refused
MalformedDateOnlyAbsent(value) == IsNone(value)

\* not validate_date_format(...)
MalformedDate(value) == ~validate_date_format(value)

-----------------------------------------------------------------------------
(* Where the two versions of the handler differ *)

\* the first statement of the handler
EntryPc(v) == IF v = "mcp_nefino" THEN "log" ELSE "mode"

\* what follows the validation of the selected mode
AfterValidationPc(v) == IF v = "mcp_nefino" THEN "translate" ELSE "lookup"

\* what follows the lookup of the client
AfterLookupPc(v) == IF v = "mcp_nefino" THEN "mode" ELSE "translate"

\* await client.get_news(...) suspends; client.get_news(...) does not
Suspends(v) == v = "mcp_nefino"

-----------------------------------------------------------------------------
(* Startup: app_lifespan / server_lifespan *)

Init ==
    /\ variant \in Variants
    /\ lifespan_context = None
    /\ running = 0
    /\ pc = [i \in Invs |-> "idle"]
    /\ args = [i \in Invs |-> NoArgs]
    /\ frame = [i \in Invs |-> NoFrame]
    /\ trace = [i \in Invs |-> <<>>]
    /\ sent = [i \in Invs |-> <<>>]
    /\ fetched = [i \in Invs |-> None]
    /\ exc = [i \in Invs |-> None]
    /\ result = [i \in Invs |-> NoResult]

inv_vars == <<running, pc, args, frame, trace, sent, fetched, exc, result>>

\* config and client are built, the context holding them is yielded
LifespanStart ==
    /\ lifespan_context = None
    /\ lifespan_context' = Some([client |-> "NefinoClient"])
    /\ UNCHANGED <<variant, inv_vars>>

\* building config or client raises: reported and re-raised, the server
\* never serves a request
LifespanFail ==
    /\ lifespan_context = None
    /\ lifespan_context' = Some([failed |-> TRUE])
    /\ UNCHANGED <<variant, inv_vars>>

Serving == lifespan_context = Some([client |-> "NefinoClient"])

-----------------------------------------------------------------------------
(* One invocation of retrieve_news_items_for_place *)

\* the invocation ends with outcome r and gives the event loop back
Finish(i, r) ==
    /\ pc' = [pc EXCEPT ![i] = "done"]
    /\ result' = [result EXCEPT ![i] = r]
    /\ running' = 0

\* control passes into the except clause with exception e
Catch(i, e) ==
    /\ pc' = [pc EXCEPT ![i] = "except"]
    /\ exc' = [exc EXCEPT ![i] = Some(e)]

\* the runtime calls the handler with parameters drawn from P
Invoke(i, P) ==
    /\ Serving
    /\ running = 0
    /\ pc[i] = "idle"
    /\ \E p \in P :
          /\ args' = [args EXCEPT ![i] = p]
          /\ frame' = [frame EXCEPT ![i] = NewFrame(p)]
    /\ running' = i
    /\ pc' = [pc EXCEPT ![i] = EntryPc(variant)]
    /\ UNCHANGED <<variant, lifespan_context, trace, sent, fetched, exc, result>>

\* ctx.session.send_log_message(level="info", data="Running GetNews tool")
SendLog(i) ==
    /\ running = i
    /\ pc[i] = "log"
    /\ trace' = [trace EXCEPT ![i] = Append(@, Event("send_log_message", "Running GetNews tool"))]
    /\ pc' = [pc EXCEPT ![i] = "lookup"]
    /\ UNCHANGED <<variant, lifespan_context, running, args, frame, sent, fetched, exc, result>>

\* client = ctx.request_context.lifespan_context.client
GetClient(i) ==
    /\ running = i
    /\ pc[i] = "lookup"
    /\ frame' = [frame EXCEPT ![i].client = Some(Get(lifespan_context).client)]
    /\ pc' = [pc EXCEPT ![i] = AfterLookupPc(variant)]
    /\ UNCHANGED <<variant, lifespan_context, running, args, trace, sent, fetched, exc, result>>

\* the RECENCY branch: validate_last_n_days, then the date fields are cleared
ValidateLastNDays(i) ==
    /\ running = i
    /\ pc[i] = "mode"
    /\ IsRecency(frame[i])
    /\ trace' = [trace EXCEPT ![i] = Append(@, Event("validate_last_n_days", frame[i].last_n_days))]
    /\ LET v == validate_last_n_days(frame[i].last_n_days)
       IN  IF ~v[1]
           THEN /\ Finish(i, Returned(RecencyErrorString(v[2])))
                /\ UNCHANGED frame
           ELSE /\ frame' = ClearDateRange(frame, i)
                /\ pc' = [pc EXCEPT ![i] = AfterValidationPc(variant)]
                /\ UNCHANGED <<running, result>>
    /\ UNCHANGED <<variant, lifespan_context, args, sent, fetched, exc>>

\* the RANGE branch, left operand of `or`: validate_date_format(date_range_begin)
ValidateFormatBegin(i) ==
    /\ running = i
    /\ pc[i] = "mode"
    /\ IsRange(frame[i])
    /\ trace' = [trace EXCEPT ![i] = Append(@, Event("validate_date_format", frame[i].date_range_begin))]
    /\ IF MalformedDate(frame[i].date_range_begin)
       THEN Finish(i, Returned(FormatErrorString))
       ELSE /\ pc' = [pc EXCEPT ![i] = "format_end"]
            /\ UNCHANGED <<running, result>>
    /\ UNCHANGED <<variant, lifespan_context, args, frame, sent, fetched, exc>>

\* the RANGE branch, right operand of `or`: validate_date_format(date_range_end)
ValidateFormatEnd(i) ==
    /\ running = i
    /\ pc[i] = "format_end"
    /\ trace' = [trace EXCEPT ![i] = Append(@, Event("validate_date_format", frame[i].date_range_end))]
    /\ IF MalformedDate(frame[i].date_range_end)
       THEN Finish(i, Returned(FormatErrorString))
       ELSE /\ pc' = [pc EXCEPT ![i] = "range"]
            /\ UNCHANGED <<running, result>>
    /\ UNCHANGED <<variant, lifespan_context, args, frame, sent, fetched, exc>>

\* the RANGE branch: validate_date_range, then last_n_days is cleared
ValidateDateRange(i) ==
    /\ running = i
    /\ pc[i] = "range"
    /\ trace' = [trace EXCEPT ![i] = Append(@, Event("validate_date_range",
                     <<frame[i].date_range_begin, frame[i].date_range_end>>))]
    /\ LET v == validate_date_range(frame[i].date_range_begin, frame[i].date_range_end)
       IN  IF ~v[1]
           THEN /\ Finish(i, Returned(RangeErrorString(v[2])))
                /\ UNCHANGED frame
           ELSE /\ frame' = ClearLastNDays(frame, i)
                /\ pc' = [pc EXCEPT ![i] = AfterValidationPc(variant)]
                /\ UNCHANGED <<running, result>>
    /\ UNCHANGED <<variant, lifespan_context, args, sent, fetched, exc>>

\* neither branch of the if/elif is taken: nothing is validated or cleared
NoMode(i) ==
    /\ running = i
    /\ pc[i] = "mode"
    /\ ~IsRecency(frame[i])
    /\ ~IsRange(frame[i])
    /\ pc' = [pc EXCEPT ![i] = AfterValidationPc(variant)]
    /\ UNCHANGED <<variant, lifespan_context, running, args, frame, trace, sent, fetched, exc, result>>

\* str_place_type, str_range_or_recency, str_news_topics are computed
Translate(i) ==
    /\ running = i
    /\ pc[i] = "translate"
    /\ frame' = [frame EXCEPT ![i].str_place_type = Some(str_place_type(frame[i])),
                              ![i].str_range_or_recency = str_range_or_recency(frame[i]),
                              ![i].str_news_topics = str_news_topics(frame[i])]
    /\ pc' = [pc EXCEPT ![i] = "call"]
    /\ UNCHANGED <<variant, lifespan_context, running, args, trace, sent, fetched, exc, result>>

\* client.get_news(...) is called; where it is awaited the invocation is
\* suspended and the event loop is free for another one
CallGetNews(i) ==
    /\ running = i
    /\ pc[i] = "call"
    /\ sent' = [sent EXCEPT ![i] = Append(@, get_news_request(frame[i]))]
    /\ trace' = [trace EXCEPT ![i] = Append(@, Event("get_news", get_news_request(frame[i])))]
    /\ pc' = [pc EXCEPT ![i] = "await"]
    /\ running' = IF Suspends(variant) THEN 0 ELSE i
    /\ UNCHANGED <<variant, lifespan_context, args, frame, fetched, exc, result>>

\* the event loop can give control to invocation i, which waits for its fetch
CanResume(i) ==
    /\ pc[i] = "await"
    /\ running = IF Suspends(variant) THEN 0 ELSE i

\* the fetch answers with a payload
FetchReturns(i, payload) ==
    /\ CanResume(i)
    /\ fetched' = [fetched EXCEPT ![i] = Some([kind |-> "payload", value |-> payload])]
    /\ IF Suspends(variant)
       THEN /\ pc' = [pc EXCEPT ![i] = "log_ok"]
            /\ running' = i
            /\ UNCHANGED result
       ELSE Finish(i, Returned(<<payload>>))
    /\ UNCHANGED <<variant, lifespan_context, args, frame, trace, sent, exc>>

\* the fetch raises
FetchRaises(i, e) ==
    /\ CanResume(i)
    /\ fetched' = [fetched EXCEPT ![i] = Some([kind |-> "error", value |-> e])]
    /\ Catch(i, e)
    /\ running' = i
    /\ UNCHANGED <<variant, lifespan_context, args, frame, trace, sent, result>>

\* ctx.session.send_log_message(... "News items retrieved successfully"); return result
LogSuccess(i) ==
    /\ running = i
    /\ pc[i] = "log_ok"
    /\ trace' = [trace EXCEPT ![i] = Append(@, Event("send_log_message", "News items retrieved successfully"))]
    /\ Finish(i, Returned(<<Get(fetched[i]).value>>))
    /\ UNCHANGED <<variant, lifespan_context, args, frame, sent, fetched, exc>>

\* except Exception as e: ctx.error(...); return f"Failed to retrieve news: {str(e)}"
ReportError(i) ==
    /\ running = i
    /\ pc[i] = "except"
    /\ trace' = [trace EXCEPT ![i] = Append(@, Event("error", <<"Error retrieving news: ", Get(exc[i])>>))]
    /\ Finish(i, Returned(FailureString(Get(exc[i]))))
    /\ UNCHANGED <<variant, lifespan_context, args, frame, sent, fetched, exc>>

\* the caller has the outcome; nothing of the invocation is kept
Discard(i) ==
    /\ pc[i] = "done"
    /\ pc' = [pc EXCEPT ![i] = "idle"]
    /\ args' = [args EXCEPT ![i] = NoArgs]
    /\ frame' = [frame EXCEPT ![i] = NoFrame]
    /\ trace' = [trace EXCEPT ![i] = <<>>]
    /\ sent' = [sent EXCEPT ![i] = <<>>]
    /\ fetched' = [fetched EXCEPT ![i] = None]
    /\ exc' = [exc EXCEPT ![i] = None]
    /\ result' = [result EXCEPT ![i] = NoResult]
    /\ UNCHANGED <<variant, lifespan_context, running>>

-----------------------------------------------------------------------------
(* Failures of the runtime's own calls *)

\* ctx.session.send_log_message raises before the try statement is entered
SendLogRaises(i) ==
    /\ running = i
    /\ pc[i] = "log"
    /\ trace' = [trace EXCEPT ![i] = Append(@, Event("send_log_message", "Running GetNews tool"))]
    /\ Finish(i, Raised("send_log_message failed"))
    /\ UNCHANGED <<variant, lifespan_context, args, frame, sent, fetched, exc>>

\* the lookup of the client in the context raises, inside the try statement
GetClientRaises(i) ==
    /\ running = i
    /\ pc[i] = "lookup"
    /\ Catch(i, "no client in context")
    /\ UNCHANGED <<variant, lifespan_context, running, args, frame, trace, sent, fetched, result>>

\* a validator raises instead of answering, inside the try statement
ValidatorRaises(i) ==
    /\ running = i
    /\ \/ pc[i] = "mode" /\ (IsRecency(frame[i]) \/ IsRange(frame[i]))
       \/ pc[i] \in {"format_end", "range"}
    /\ Catch(i, "validator failed")
    /\ UNCHANGED <<variant, lifespan_context, running, args, frame, trace, sent, fetched, result>>

\* .value raises (a parameter that is no enum member), inside the try statement
TranslateRaises(i) ==
    /\ running = i
    /\ pc[i] = "translate"
    /\ Catch(i, "no attribute value")
    /\ UNCHANGED <<variant, lifespan_context, running, args, frame, trace, sent, fetched, result>>

\* the log call after the fetch raises, inside the try statement
LogSuccessRaises(i) ==
    /\ running = i
    /\ pc[i] = "log_ok"
    /\ trace' = [trace EXCEPT ![i] = Append(@, Event("send_log_message", "News items retrieved successfully"))]
    /\ Catch(i, "send_log_message failed")
    /\ UNCHANGED <<variant, lifespan_context, running, args, frame, sent, fetched, result>>

\* ctx.error raises inside the except clause: nothing catches it
ReportErrorRaises(i) ==
    /\ running = i
    /\ pc[i] = "except"
    /\ trace' = [trace EXCEPT ![i] = Append(@, Event("error", <<"Error retrieving news: ", Get(exc[i])>>))]
    /\ Finish(i, Raised("ctx.error failed"))
    /\ UNCHANGED <<variant, lifespan_context, args, frame, sent, fetched, exc>>

-----------------------------------------------------------------------------
(* Specifications *)

Handler(i) ==
    \/ SendLog(i)
    \/ GetClient(i)
    \/ ValidateLastNDays(i)
    \/ ValidateFormatBegin(i)
    \/ ValidateFormatEnd(i)
    \/ ValidateDateRange(i)
    \/ NoMode(i)
    \/ Translate(i)
    \/ CallGetNews(i)
    \/ \E payload \in Payloads : FetchReturns(i, payload)
    \/ \E e \in FetchErrors : FetchRaises(i, e)
    \/ LogSuccess(i)
    \/ ReportError(i)
    \/ Discard(i)

Faults(i) ==
    \/ SendLogRaises(i)
    \/ GetClientRaises(i)
    \/ ValidatorRaises(i)
    \/ TranslateRaises(i)
    \/ LogSuccessRaises(i)
    \/ ReportErrorRaises(i)

\* one invocation at a time, any parameters; of the collaborators only the
\* fetch fails
Next ==
    \/ LifespanStart
    \/ LifespanFail
    \/ Invoke(1, Params)
    \/ Handler(1)

Spec == Init /\ [][Next]_vars

\* one invocation at a time, any parameters; every call the handler makes
\* can raise
NextFaults ==
    \/ LifespanStart
    \/ LifespanFail
    \/ Invoke(1, Params)
    \/ Handler(1)
    \/ Faults(1)

SpecFaults == Init /\ [][NextFaults]_vars

\* several invocations in flight, interleaved where they are suspended
NextConc ==
    \/ LifespanStart
    \/ LifespanFail
    \/ \E i \in Invs : Invoke(i, ConcParams)
    \/ \E i \in Invs : Handler(i)

\* the version whose fetch is awaited is the one that interleaves
InitConc == Init /\ Suspends(variant)

SpecConc == InitConc /\ [][NextConc]_vars

-----------------------------------------------------------------------------
(* Vocabulary of the properties *)

Done(i) == pc[i] = "done"

\* invocation i has made a call named op
Called(i, op) == \E k \in 1..Len(trace[i]) : trace[i][k].op = op

\* the positions in invocation i's trace of its calls named op
Calls(i, op) == {k \in 1..Len(trace[i]) : trace[i][k].op = op}

Validators == {"validate_last_n_days", "validate_date_format", "validate_date_range"}

ValidationPrefixes ==
    {"Validation error in RangeOrRecency.RECENCY: ",
     "Validation error: Invalid date format. Use YYYY-MM-DD",
     "Validation error in RangeOrRecency.RANGE: "}

IsValidationError(r) == r.kind = "returned" /\ r.value[1] \in ValidationPrefixes

\* the three input cases that are validation errors
RecencyRejected(a) ==
    a.range_or_recency = Some("RECENCY") /\ ~validate_last_n_days(a.last_n_days)[1]

FormatRejected(a) ==
    /\ a.range_or_recency = Some("RANGE")
    /\ ~validate_date_format(a.date_range_begin) \/ ~validate_date_format(a.date_range_end)

OrderRejected(a) ==
    /\ a.range_or_recency = Some("RANGE")
    /\ validate_date_format(a.date_range_begin)
    /\ validate_date_format(a.date_range_end)
    /\ ~validate_date_range(a.date_range_begin, a.date_range_end)[1]

RejectedInput(a) == RecencyRejected(a) \/ FormatRejected(a) \/ OrderRejected(a)

-----------------------------------------------------------------------------
\* C1: whenever an invocation ends with a validation error (RECENCY with a
\* rejected last_n_days; RANGE with a malformed or absent date; RANGE with
\* begin after end), get_news has not been called at any point of that
\* invocation, and the validation-error string is what it returns.
C1_NoFetchOnValidationError ==
    \A i \in Invs :
        /\ (RejectedInput(args[i]) \/ IsValidationError(result[i]))
              => sent[i] = <<>> /\ ~Called(i, "get_news")
        /\ Done(i) => (RejectedInput(args[i]) <=> IsValidationError(result[i]))

\* an invocation has ended with the ordering error of RANGE mode
C1_Witness ==
    \E i \in Invs :
        /\ Done(i)
        /\ OrderRejected(args[i])
        /\ result[i].kind = "returned"
        /\ result[i].value[1] = "Validation error in RangeOrRecency.RANGE: "

-----------------------------------------------------------------------------
\* C2: every invocation ends by returning a string: whatever call of the
\* handler fails (the initial log notification, the client lookup, a
\* validator, the enum translation, the fetch, the error report of the except
\* clause), no exception propagates out of the handler.
C2_AlwaysReturnsString ==
    \A i \in Invs : Done(i) => result[i].kind = "returned"

-----------------------------------------------------------------------------
\* C3: in every get_news call of an invocation with a mode selected, the
\* fields of the other mode are None whatever the caller supplied, and the
\* fields of the selected mode are the caller's, unchanged.
C3_UnselectedModeCleared ==
    \A i \in Invs : \A k \in 1..Len(sent[i]) :
        LET r == sent[i][k]
            a == args[i]
        IN  /\ a.range_or_recency = Some("RECENCY") =>
                  /\ r.date_range_begin = None
                  /\ r.date_range_end = None
                  /\ r.last_n_days = a.last_n_days
            /\ a.range_or_recency = Some("RANGE") =>
                  /\ r.last_n_days = None
                  /\ r.date_range_begin = a.date_range_begin
                  /\ r.date_range_end = a.date_range_end

\* a RECENCY call was sent for a caller who also supplied both dates
C3_Witness ==
    \E i \in Invs :
        /\ Len(sent[i]) = 1
        /\ args[i].range_or_recency = Some("RECENCY")
        /\ args[i].date_range_begin # None
        /\ args[i].date_range_end # None
        /\ sent[i][1].last_n_days = Some(7)

-----------------------------------------------------------------------------
\* C4: when range_or_recency is absent, the get_news call carries
\* last_n_days, date_range_begin and date_range_end all as None, whatever the
\* caller supplied for them.
C4_NoModeFieldsUnset ==
    \A i \in Invs : \A k \in 1..Len(sent[i]) :
        args[i].range_or_recency = None =>
            /\ sent[i][k].last_n_days = None
            /\ sent[i][k].date_range_begin = None
            /\ sent[i][k].date_range_end = None

-----------------------------------------------------------------------------
\* C5: when get_news raises, the handler returns the string
\* "Failed to retrieve news: " followed by the error's description; the fault
\* does not reach the caller and no success payload is returned.
C5_FetchFaultBecomesString ==
    \A i \in Invs :
        (fetched[i] # None /\ Get(fetched[i]).kind = "error") =>
            /\ result[i].kind # "raised"
            /\ Done(i) =>
                  result[i] = [kind |-> "returned",
                               value |-> <<"Failed to retrieve news: ",
                                           Get(fetched[i]).value>>]

\* an invocation whose fetch raised has ended
C5_Witness ==
    \E i \in Invs :
        /\ Done(i)
        /\ fetched[i] = Some([kind |-> "error", value |-> "connection refused"])
        /\ Len(sent[i]) = 1

-----------------------------------------------------------------------------
\* the wire strings of section 6 of the specification, member by member
WirePlaceType ==
    [m \in PlaceTypeNews |->
        IF m = "PLANNING_REGIONS" THEN "PR"
        ELSE IF m = "COUNTY" THEN "CTY"
        ELSE IF m = "ADMINISTRATIVE_UNIT" THEN "AU" ELSE "LAU"]

WireTopic ==
    [m \in NewsTopic |->
        IF m = "BATTERY_STORAGE" THEN "batteryStorage"
        ELSE IF m = "GRID_EXPANSION" THEN "gridExpansion"
        ELSE IF m = "SOLAR" THEN "solar"
        ELSE IF m = "HYDROGEN" THEN "hydrogen" ELSE "wind"]

\* C6: in every get_news call place_type is the wire string (PR, CTY, AU, LAU)
\* of the place type supplied; range_or_recency is RANGE or RECENCY when a
\* mode was supplied and None otherwise; a non-empty news_topics list is sent
\* with the same length and order, each element the wire string of the
\* corresponding topic, duplicates kept.
C6_EnumTranslation ==
    \A i \in Invs : \A k \in 1..Len(sent[i]) :
        LET r == sent[i][k]
            a == args[i]
        IN  /\ r.place_type = WirePlaceType[a.place_type]
            /\ r.place_type \in {"PR", "CTY", "AU", "LAU"}
            /\ r.range_or_recency = a.range_or_recency
            /\ r.range_or_recency \in {None, Some("RANGE"), Some("RECENCY")}
            /\ (a.news_topics # None /\ Get(a.news_topics) # <<>>) =>
                  /\ r.news_topics # None
                  /\ Len(Get(r.news_topics)) = Len(Get(a.news_topics))
                  /\ \A n \in 1..Len(Get(a.news_topics)) :
                        Get(r.news_topics)[n] = WireTopic[Get(a.news_topics)[n]]

\* a call was sent for a caller who named the same topic twice
C6_Witness ==
    \E i \in Invs :
        /\ Len(sent[i]) = 1
        /\ args[i].news_topics = Some(<<"SOLAR", "SOLAR">>)
        /\ args[i].place_type = "LOCAL_ADMINISTRATIVE_UNITS"
        /\ sent[i][1].news_topics = Some(<<"solar", "solar">>)

-----------------------------------------------------------------------------
\* C7: an invocation calls get_news at most once; with RANGE or RECENCY the
\* call comes only after that mode's validation has passed; with no mode no
\* validator is called, no validation error is produced and the invocation
\* makes exactly one call; after the call, or after a failed validation,
\* nothing more is validated or called.
C7_InvocationStateMachine ==
    \A i \in Invs :
        LET a == args[i]
            t == trace[i]
            fetches == Calls(i, "get_news")
        IN  /\ Cardinality(fetches) <= 1
            /\ Len(sent[i]) = Cardinality(fetches)
            /\ \A k \in fetches :
                  /\ a.range_or_recency = Some("RECENCY") =>
                        \E v \in 1..(k - 1) :
                            /\ t[v].op = "validate_last_n_days"
                            /\ validate_last_n_days(t[v].args)[1]
                  /\ a.range_or_recency = Some("RANGE") =>
                        \E v \in 1..(k - 1) :
                            /\ t[v].op = "validate_date_range"
                            /\ validate_date_range(t[v].args[1], t[v].args[2])[1]
                  /\ \A n \in (k + 1)..Len(t) : t[n].op \notin Validators
            /\ a.range_or_recency = None =>
                  /\ \A n \in 1..Len(t) : t[n].op \notin Validators
                  /\ ~IsValidationError(result[i])
                  /\ Done(i) => Cardinality(fetches) = 1
            /\ IsValidationError(result[i]) =>
                  /\ Done(i)
                  /\ t[Len(t)].op \in Validators

\* an invocation without a mode has ended after its one call
C7_Witness ==
    \E i \in Invs :
        /\ Done(i)
        /\ args[i].range_or_recency = None
        /\ args[i].last_n_days = Some(0)
        /\ Cardinality(Calls(i, "get_news")) = 1

-----------------------------------------------------------------------------
\* C8: in RANGE mode the format check comes first: with a malformed or absent
\* date the handler returns the format error and validate_date_range is never
\* called; validate_date_range is only called with two dates that
\* validate_date_format has accepted, so a pair that is malformed and also
\* out of order yields the format error, never the ordering error.
C8_FormatBeforeOrdering ==
    \A i \in Invs :
        LET a == args[i]
            t == trace[i]
        IN  /\ FormatRejected(a) =>
                  /\ ~Called(i, "validate_date_range")
                  /\ pc[i] # "range"
                  /\ Done(i) =>
                        result[i] = [kind |-> "returned", value |->
                            <<"Validation error: Invalid date format. Use YYYY-MM-DD">>]
            /\ \A k \in Calls(i, "validate_date_range") :
                  /\ validate_date_format(t[k].args[1])
                  /\ validate_date_format(t[k].args[2])
                  /\ \E b \in 1..(k - 1) : \E e \in (b + 1)..(k - 1) :
                        /\ t[b].op = "validate_date_format"
                        /\ t[b].args = t[k].args[1]
                        /\ t[e].op = "validate_date_format"
                        /\ t[e].args = t[k].args[2]

\* an invocation given 2024-02-30 .. 2023-01-01 (no such day, and after the
\* end) has ended
C8_Witness ==
    \E i \in Invs :
        /\ Done(i)
        /\ args[i].range_or_recency = Some("RANGE")
        /\ args[i].date_range_begin = Some(Feb30)
        /\ args[i].date_range_end = Some(Jan2023)
        /\ result[i].kind = "returned"

-----------------------------------------------------------------------------
\* what an invocation's parameters alone say it sends and returns

ExpectedFields(a) ==
    [last_n_days |->
        IF a.range_or_recency = Some("RANGE") THEN None ELSE a.last_n_days,
     date_range_begin |->
        IF a.range_or_recency = Some("RECENCY") THEN None ELSE a.date_range_begin,
     date_range_end |->
        IF a.range_or_recency = Some("RECENCY") THEN None ELSE a.date_range_end]

ExpectedRequest(a) ==
    [place_id |-> a.place_id,
     place_type |-> WirePlaceType[a.place_type],
     range_or_recency |-> a.range_or_recency,
     last_n_days |-> ExpectedFields(a).last_n_days,
     date_range_begin |-> ExpectedFields(a).date_range_begin,
     date_range_end |-> ExpectedFields(a).date_range_end,
     news_topics |->
        IF a.news_topics = None \/ a.news_topics = Some(<<>>) THEN None
        ELSE Some([n \in 1..Len(Get(a.news_topics)) |-> WireTopic[Get(a.news_topics)[n]]])]

ExpectedResult(a, f) ==
    IF RecencyRejected(a)
    THEN [kind |-> "returned", value |->
             <<"Validation error in RangeOrRecency.RECENCY: ",
               Get(validate_last_n_days(a.last_n_days)[2])>>]
    ELSE IF FormatRejected(a)
    THEN [kind |-> "returned", value |->
             <<"Validation error: Invalid date format. Use YYYY-MM-DD">>]
    ELSE IF OrderRejected(a)
    THEN [kind |-> "returned", value |->
             <<"Validation error in RangeOrRecency.RANGE: ",
               Get(validate_date_range(a.date_range_begin, a.date_range_end)[2])>>]
    ELSE IF Get(f).kind = "payload"
    THEN [kind |-> "returned", value |-> <<Get(f).value>>]
    ELSE [kind |-> "returned", value |-> <<"Failed to retrieve news: ", Get(f).value>>]

\* C9: with invocations interleaved at the fetch and sharing the client, the
\* request an invocation sends and the string it returns depend only on its
\* own parameters and its own fetch outcome; the clearing of fields by one
\* invocation never changes the fields another one sees or sends.
C9_InvocationsIndependent ==
    \A i \in Invs :
        /\ pc[i] \in {"call", "await", "log_ok", "except", "done"} /\ ~RejectedInput(args[i]) =>
              /\ frame[i].last_n_days = ExpectedFields(args[i]).last_n_days
              /\ frame[i].date_range_begin = ExpectedFields(args[i]).date_range_begin
              /\ frame[i].date_range_end = ExpectedFields(args[i]).date_range_end
        /\ pc[i] \in {"await", "log_ok", "except"} =>
              sent[i] = <<ExpectedRequest(args[i])>>
        /\ Done(i) =>
              /\ result[i] = ExpectedResult(args[i], fetched[i])
              /\ sent[i] = IF RejectedInput(args[i]) THEN <<>>
                           ELSE <<ExpectedRequest(args[i])>>

\* a RANGE invocation is still suspended at its fetch while a RECENCY
\* invocation that started after it has cleared its dates and ended
C9_Witness ==
    \E i, j \in Invs :
        /\ i # j
        /\ pc[i] = "await"
        /\ args[i].range_or_recency = Some("RANGE")
        /\ args[i].last_n_days # None
        /\ Done(j)
        /\ args[j].range_or_recency = Some("RECENCY")
        /\ args[j].date_range_begin # None
        /\ Len(sent[j]) = 1
        /\ Get(fetched[j]).kind = "payload"

-----------------------------------------------------------------------------
\* C10: an empty news_topics list is sent as None, as when no list was given:
\* the news_topics of a get_news call is None or a non-empty list of wire
\* strings.
C10_EmptyTopicsAbsent ==
    \A i \in Invs : \A k \in 1..Len(sent[i]) :
        LET r == sent[i][k]
        IN  /\ args[i].news_topics \in {None, Some(<<>>)} => r.news_topics = None
            /\ r.news_topics # None =>
                  /\ Len(Get(r.news_topics)) > 0
                  /\ \A n \in 1..Len(Get(r.news_topics)) :
                        Get(r.news_topics)[n] \in
                            {"batteryStorage", "gridExpansion", "solar", "hydrogen", "wind"}

\* a call was sent for a caller who supplied the empty list
C10_Witness ==
    \E i \in Invs :
        /\ Len(sent[i]) = 1
        /\ args[i].news_topics = Some(<<>>)
        /\ sent[i][1].news_topics = None

====
